---- MODULE Spec2Model ----
(***************************************************************************)
(* Model of the WriteBuffer of src/net/utils.rs (arrow-client): a byte     *)
(* buffer with a soft capacity, a window [offset, offset + used) of        *)
(* buffered bytes inside a Vec<u8>, growth by Vec::reserve and in-place    *)
(* compaction by ptr::copy; and of the Timeout and the IpAddrEx of the     *)
(* same file and of the Logger trait of src/utils/logger/mod.rs.           *)
(*                                                                         *)
(* A record [buffer, capacity, offset, used] stands for a WriteBuffer      *)
(* value; every method is an operator from such a record (self) to the     *)
(* record after the call, and every action applies one method to the       *)
(* state variables.  The variable calls is a history variable: the log of  *)
(* the calls made so far, each with its arguments, the buffer before the   *)
(* call and what the call returned.                                        *)
(***************************************************************************)
EXTENDS Integers, Sequences, FiniteSets

VARIABLES
    \* WriteBuffer: its fields, and the log of the calls made on it
    buffer, capacity, offset, used, calls,
    \* Timeout: its field, the clock precise_time_ns() reads, the build
    \* (overflow checks on or off) and what the last call was and returned
    timeout, now, build, tlog,
    \* Logger: the field of the logger, what log() received in the last
    \* call, and the last call
    last_severity, seen, lcall,
    \* IpAddrEx: the address and what bytes() and version() returned for it
    ip_addr, ip_res

bufVars == <<buffer, capacity, offset, used, calls>>

timeVars == <<timeout, now, build, tlog>>

logVars == <<last_severity, seen, lcall>>

ipVars == <<ip_addr, ip_res>>

vars == <<bufVars, timeVars, logVars, ipVars>>

(***************************************************************************)
(* Bounds of the model.                                                    *)
(***************************************************************************)
\* largest capacity passed to WriteBuffer::new
MaxCapacity == 3
\* bytes by which reserve may over-allocate
MaxSlack == 1
\* longest slice passed to write
MaxData == 2
\* largest in-range count passed to drop
MaxCount == 2
\* a count far larger than anything ever buffered
HugeCount == 1000
\* number of calls made on one Timeout, the ticks of the clock included
MaxTimeSteps == 4
\* number of calls made on one logger
MaxLogCalls == 2
\* number of calls made on one buffer when the queries and flush are
\* called too
MaxProbedCalls == 3
\* number of calls made on one buffer
MaxCalls == 4

(***************************************************************************)
(* Bytes.  A u8 is 0..255.  The Vec's bytes that were never written        *)
(* (set_len over fresh capacity, lines 101-104 and 166-169) hold no        *)
(* defined value: they are kept apart from every u8 as Uninit.             *)
(***************************************************************************)
U8 == 256

Uninit == -1

Min(a, b) == IF a <= b THEN a ELSE b

Max(a, b) == IF a >= b THEN a ELSE b

\* a block of n never-written bytes
Fresh(n) == [i \in 1..n |-> Uninit]

\* the byte at 0-based index i of a Vec (raw pointer read)
At(buf, i) == IF i + 1 \in DOMAIN buf THEN buf[i + 1] ELSE Uninit

(***************************************************************************)
(* Vec<u8> allocation.  Vec::with_capacity(n) allocates exactly n bytes    *)
(* for a Vec<u8>.  Vec::reserve(additional) promises a capacity of AT      *)
(* LEAST len + additional and may allocate more to amortise: the exact     *)
(* fit, the doubling of the old capacity and an over-allocation by         *)
(* MaxSlack are the capacities modelled.                                   *)
(***************************************************************************)
\* an empty Vec (Vec::new()) where with_capacity(n) is meant
with_capacity_none(n) == 0

with_capacity(n) == n

\* capacities a Vec of capacity cap and length len may have after
\* reserve(additional)
reserve(cap, len, additional) ==
    IF cap - len >= additional
    THEN {cap}
    ELSE {len + additional, len + additional + MaxSlack,
          Max(2 * cap, len + additional)}

(***************************************************************************)
(* WriteBuffer                                                             *)
(***************************************************************************)
Self == [buffer |-> buffer, capacity |-> capacity, offset |-> offset, used |-> used]

\* WriteBuffer::new(capacity): set_len(buf_capacity) over the fresh Vec
WriteBuffer_new(cap) ==
    [buffer |-> Fresh(with_capacity(cap)), capacity |-> cap, offset |-> 0, used |-> 0]

\* is_full with > written for >=
is_full_gt(self) == self.used > self.capacity

is_full(self) == self.used >= self.capacity

is_empty(self) == self.used = 0

\* available without the is_full guard
available_unguarded(self) == self.capacity - self.used

available(self) == IF is_full(self) THEN 0 ELSE self.capacity - self.used

buffered(self) == self.used

\* the bounds check of &self.buffer[start..end]
as_bytes_ok(self) == self.offset + self.used <= Len(self.buffer)

as_bytes(self) == SubSeq(self.buffer, self.offset + 1, self.offset + self.used)

\* drop without the clamp of count to used on the offset
drop_unclamped(self, count) ==
    [self EXCEPT !.offset = self.offset + count,
                 !.used = IF count > self.used THEN 0 ELSE self.used - count]

\* drop whose first branch forgets self.used = 0
drop_keeps_used(self, count) ==
    IF count > self.used
    THEN [self EXCEPT !.offset = self.offset + self.used]
    ELSE [self EXCEPT !.offset = self.offset + count, !.used = self.used - count]

drop(self, count) ==
    IF count > self.used
    THEN [self EXCEPT !.offset = self.offset + self.used, !.used = 0]
    ELSE [self EXCEPT !.offset = self.offset + count, !.used = self.used - count]

\* clear that resets used and leaves offset where it is
clear_in_place(self) == [self EXCEPT !.used = 0]

\* clear that advances offset and forgets self.used = 0
clear_keeps_used(self) == [self EXCEPT !.offset = self.offset + self.used]

clear(self) == [self EXCEPT !.offset = self.offset + self.used, !.used = 0]

\* the grow test without self.used
write_grows_ignores_used(self, data) == Len(data) > Len(self.buffer)

\* "expand buffer if needed": does write(data) reserve?
write_grows(self, data) == (self.used + Len(data)) > Len(self.buffer)

\* the grow step reserving data.len() more bytes on every write
write_caps_always(self, data) ==
    reserve(Len(self.buffer), Len(self.buffer), Len(data))

\* the capacities the Vec may have after the grow step of write(data)
write_caps(self, data) ==
    IF write_grows(self, data)
    THEN reserve(Len(self.buffer), Len(self.buffer),
                 self.used + Len(data) - Len(self.buffer))
    ELSE {Len(self.buffer)}

\* the Vec after the grow step, its capacity having become cap: realloc
\* keeps the old bytes, set_len exposes the new ones unwritten
write_expand(self, cap) == self.buffer \o Fresh(cap - Len(self.buffer))

\* the shift test that ignores the length of data
write_shifts_ignores_data(self, buf, data) ==
    self.offset > 0 /\ (self.offset + self.used) >= Len(buf)

\* the shift test without self.used
write_shifts_ignores_used(self, buf, data) == (self.offset + Len(data)) > Len(buf)

\* the shift test with >= written for >
write_shifts_ge(self, buf, data) == (self.offset + self.used + Len(data)) >= Len(buf)

\* "shift the buffered data to the left if needed"
write_shifts(self, buf, data) == (self.offset + self.used + Len(data)) > Len(buf)

\* the shift without its ptr::copy
write_shift_no_copy(self, buf) == buf

\* ptr::copy(src = dst + offset, dst, used): a memmove
write_shift(self, buf) ==
    [i \in 1..Len(buf) |->
        IF i <= self.used THEN At(buf, self.offset + i - 1) ELSE buf[i]]

\* write(data), the Vec having capacity cap after the grow step.  The
\* result is the buffer after the call and what the call returned:
\* ok = FALSE is a panic (the slice index or unwrap() of WriteZero).
write(self, data, cap) ==
    LET buf1 == write_expand(self, cap)
        shifted == write_shifts(self, buf1, data)
        buf2 == IF shifted THEN write_shift(self, buf1) ELSE buf1
        off2 == IF shifted THEN 0 ELSE self.offset
        at == off2 + self.used
        room == IF at <= Len(buf2) THEN Len(buf2) - at ELSE 0
        n == Min(Len(data), room)
        buf3 == [i \in 1..Len(buf2) |->
                    IF i > at /\ i <= at + n THEN data[i - at] ELSE buf2[i]]
        ok == at <= Len(buf2) /\ n = Len(data)
    IN  [self |-> [self EXCEPT !.buffer = IF at <= Len(buf2) THEN buf3 ELSE buf2,
                               !.offset = off2,
                               !.used = IF ok THEN self.used + Len(data) ELSE self.used],
         ret |-> [ok |-> ok, n |-> IF ok THEN Len(data) ELSE 0,
                  grew |-> cap # Len(self.buffer), shifted |-> shifted]]

\* flush that drops what is buffered
flush_clears(self) == [self EXCEPT !.offset = self.offset + self.used, !.used = 0]

\* "Do nothing."
flush(self) == self

(***************************************************************************)
(* Timeout.  Its field is an Option<u64> of nanoseconds: None is <<>> and  *)
(* Some(t) is <<t>>.  The tool's integers are 32 bits wide, so the u64 is  *)
(* modelled as a word of 30 bits: every u64 operation of set is done       *)
(* modulo WordModulus, by additions that stay below 2^31, and overflows    *)
(* exactly when the true result does not fit the word.  With overflow      *)
(* checks (a debug build) an overflowing operation panics; without (a      *)
(* release build) it wraps.                                                *)
(***************************************************************************)
WordModulus == 2^30

NsPerMs == 1000000

\* the largest delay_ms whose product with NsPerMs fits the word
MaxSafeDelay == (WordModulus - 1) \div NsPerMs

None == <<>>

Some(t) == <<t>>

MulOverflows(a, b) == a > 0 /\ b > (WordModulus - 1) \div a

\* a * b modulo WordModulus
RECURSIVE WrappingMul(_, _)
WrappingMul(a, b) ==
    IF b = 0 THEN 0
    ELSE LET double == (2 * WrappingMul(a, b \div 2)) % WordModulus
         IN  IF b % 2 = 1 THEN (double + (a % WordModulus)) % WordModulus
             ELSE double

AddOverflows(a, b) == a + b >= WordModulus

WrappingAdd(a, b) == (a + b) % WordModulus

Timeout_new == [timeout |-> None]

Timeout_clear(self) == [self EXCEPT !.timeout = None]

\* set(delay_ms), precise_time_ns() reading clock, in build bld
Timeout_set(self, delay_ms, clock, bld) ==
    LET product == WrappingMul(delay_ms, NsPerMs)
        over == MulOverflows(delay_ms, NsPerMs) \/ AddOverflows(clock, product)
    IN  IF bld = "debug" /\ over
        THEN [self |-> self, panic |-> TRUE]
        ELSE [self |-> [self EXCEPT !.timeout = Some(WrappingAdd(clock, product))],
              panic |-> FALSE]

\* check(), precise_time_ns() reading clock
Timeout_check(self, clock) ==
    IF self.timeout = None THEN TRUE ELSE clock <= self.timeout[1]

\* what is known of a Timeout no call was made on: the last call (op) and
\* the one before it (prev), the delay and the clock reading of the last set,
\* what the last check returned, whether set panicked, the clock reading
\* and delay the Timeout was armed with (<<>> when unarmed), whether a
\* check returned false since it was armed (expired; was: before the last
\* check), and the number of steps made
TimeLog0 ==
    [op |-> "new", prev |-> "new", delay |-> 0, at |-> 0, ret |-> TRUE,
     panic |-> FALSE, armed |-> <<>>, was |-> FALSE, expired |-> FALSE,
     n |-> 0]

\* the state of a Timeout that is not called
TimeIdle ==
    /\ timeout = Timeout_new.timeout
    /\ now = 0
    /\ build = "release"
    /\ tlog = TimeLog0

(***************************************************************************)
(* Logger.  The logger is the TestLogger of the tests: log() keeps the     *)
(* severity it is given.  What log() receives is returned alongside as the *)
(* sequence `emitted`.  A text is a sequence of pieces; format! replaces   *)
(* each "{}" piece of its format by the Display of the next argument, the  *)
(* arguments being single digits.                                          *)
(***************************************************************************)
DEBUG == 0

INFO == 1

WARN == 2

ERROR == 3

TestLogger_new == [last_severity |-> DEBUG]

TestLogger_log(self, file, line, s, msg) == [self EXCEPT !.last_severity = s]

Logger_log(self, file, line, s, msg) ==
    [self |-> TestLogger_log(self, file, line, s, msg),
     emitted |-> <<[file |-> file, line |-> line, s |-> s, msg |-> msg]>>]

Logger_debug(self, file, line, msg) == Logger_log(self, file, line, DEBUG, msg)

Logger_info(self, file, line, msg) == Logger_log(self, file, line, INFO, msg)

\* warn logging with the severity of error
Logger_warn_as_error(self, file, line, msg) ==
    Logger_log(self, file, line, ERROR, msg)

Logger_warn(self, file, line, msg) == Logger_log(self, file, line, WARN, msg)

Logger_error(self, file, line, msg) == Logger_log(self, file, line, ERROR, msg)

Display(n) == <<"0", "1", "2", "3", "4", "5", "6", "7", "8", "9">>[n + 1]

RECURSIVE format(_, _)
format(fmt, args) ==
    IF fmt = <<>> THEN <<>>
    ELSE IF Head(fmt) = "{}"
         THEN <<Display(Head(args))>> \o format(Tail(fmt), Tail(args))
         ELSE <<Head(fmt)>> \o format(Tail(fmt), args)

log_debug(self, file, line, fmt, args) ==
    Logger_debug(self, file, line, format(fmt, args))

log_info(self, file, line, fmt, args) ==
    Logger_info(self, file, line, format(fmt, args))

log_warn(self, file, line, fmt, args) ==
    Logger_warn(self, file, line, format(fmt, args))

log_error(self, file, line, fmt, args) ==
    Logger_error(self, file, line, format(fmt, args))

\* what is known of a logger no call was made on: the last call, made as a
\* method or through its macro, its arguments, the text log() is to
\* receive, and the number of calls made
LogCall0 ==
    [method |-> "new", via |-> "new", file |-> "", line |-> 0, text |-> <<>>,
     n |-> 0]

\* the state of a logger that is not called
LogIdle ==
    /\ last_severity = TestLogger_new.last_severity
    /\ seen = <<>>
    /\ lcall = LogCall0

(***************************************************************************)
(* IpAddrEx.  An Ipv4Addr is its octets(), an Ipv6Addr its segments(), and *)
(* an IpAddr wraps one of the two.  The arrays of the source are functions *)
(* on 0..15.                                                               *)
(***************************************************************************)
V4(octets) == [v |-> "V4", octets |-> octets, segments |-> <<>>]

V6(segments) == [v |-> "V6", octets |-> <<>>, segments |-> segments]

Ipv4Addr_bytes(ip) ==
    [i \in 0..15 |-> IF i < Len(ip.octets) THEN ip.octets[i + 1] ELSE 0]

Ipv4Addr_version(ip) == 4

\* bytes with each segment stored low byte first
Ipv6Addr_bytes_le(ip) ==
    [j \in 0..15 |->
        IF j % 2 = 0 THEN ip.segments[(j \div 2) + 1] % U8
        ELSE (ip.segments[(j \div 2) + 1] \div U8) % U8]

Ipv6Addr_bytes(ip) ==
    [j \in 0..15 |->
        IF j % 2 = 0 THEN (ip.segments[(j \div 2) + 1] \div U8) % U8
        ELSE ip.segments[(j \div 2) + 1] % U8]

Ipv6Addr_version(ip) == 6

IpAddr_bytes(ip) ==
    IF ip.v = "V4" THEN Ipv4Addr_bytes(ip) ELSE Ipv6Addr_bytes(ip)

IpAddr_version(ip) ==
    IF ip.v = "V4" THEN Ipv4Addr_version(ip) ELSE Ipv6Addr_version(ip)

\* nothing was asked of the address yet
IpRes0 == [op |-> "new", via |-> "new", bytes |-> <<>>, version |-> 0]

\* the state of an address that is not called
IpIdle ==
    /\ ip_addr = V4(<<0, 0, 0, 0>>)
    /\ ip_res = IpRes0

(***************************************************************************)
(* The calls made so far.                                                  *)
(***************************************************************************)
NoRet == [ok |-> TRUE, n |-> 0, grew |-> FALSE, shifted |-> FALSE]

Call(op, count, data, pre, ret) ==
    [op |-> op, count |-> count, data |-> data, pre |-> pre, ret |-> ret]

\* the bytes passed to all write calls so far, in call order
RECURSIVE Appended(_)
Appended(log) ==
    IF log = <<>> THEN <<>>
    ELSE LET c == log[Len(log)]
         IN  Appended(SubSeq(log, 1, Len(log) - 1))
                 \o (IF c.op = "write" THEN c.data ELSE <<>>)

\* the slice of length n passed to the next write: every byte written
\* carries its position in the stream of written bytes
Slice(n) ==
    LET base == Len(Appended(calls))
    IN  [i \in 1..n |-> (base + i) % U8]

\* a call can be made: the bound is not reached and no call has panicked
Running ==
    /\ Len(calls) < MaxCalls
    /\ IF calls = <<>> THEN TRUE ELSE calls[Len(calls)].ret.ok

Init ==
    /\ \E c \in 0..MaxCapacity :
          LET b == WriteBuffer_new(c)
          IN  /\ buffer = b.buffer
              /\ capacity = b.capacity
              /\ offset = b.offset
              /\ used = b.used
    /\ calls = <<>>
    /\ TimeIdle
    /\ LogIdle
    /\ IpIdle

Write(n) ==
    /\ Running
    /\ LET data == Slice(n)
       IN  \E cap \in write_caps(Self, data) :
              LET r == write(Self, data, cap)
              IN  /\ buffer' = r.self.buffer
                  /\ capacity' = r.self.capacity
                  /\ offset' = r.self.offset
                  /\ used' = r.self.used
                  /\ calls' = Append(calls, Call("write", 0, data, Self, r.ret))
    /\ UNCHANGED <<timeVars, logVars, ipVars>>

Drop(count) ==
    /\ Running
    /\ LET b == drop(Self, count)
       IN  /\ buffer' = b.buffer
           /\ capacity' = b.capacity
           /\ offset' = b.offset
           /\ used' = b.used
           /\ calls' = Append(calls, Call("drop", count, <<>>, Self, NoRet))
    /\ UNCHANGED <<timeVars, logVars, ipVars>>

Clear ==
    /\ Running
    /\ LET b == clear(Self)
       IN  /\ buffer' = b.buffer
           /\ capacity' = b.capacity
           /\ offset' = b.offset
           /\ used' = b.used
           /\ calls' = Append(calls, Call("clear", 0, <<>>, Self, NoRet))
    /\ UNCHANGED <<timeVars, logVars, ipVars>>

Counts == (0..MaxCount) \cup {HugeCount}

Next ==
    \/ \E n \in 0..MaxData : Write(n)
    \/ \E count \in Counts : Drop(count)
    \/ Clear

Spec == Init /\ [][Next]_vars

(***************************************************************************)
(* The buffer with its queries and flush called between the other calls.   *)
(* A query takes &self: it returns a value and assigns nothing.            *)
(***************************************************************************)
Queries == {"is_full", "is_empty", "available", "buffered", "as_bytes"}

\* what query q returns
QueryValue(q, self) ==
    CASE q = "is_full" -> <<is_full(self)>>
      [] q = "is_empty" -> <<is_empty(self)>>
      [] q = "available" -> <<available(self)>>
      [] q = "buffered" -> <<buffered(self)>>
      [] q = "as_bytes" -> IF as_bytes_ok(self) THEN as_bytes(self) ELSE <<>>

QueryRet(q, self) ==
    [ok |-> q # "as_bytes" \/ as_bytes_ok(self), n |-> 0, grew |-> FALSE,
     shifted |-> FALSE, val |-> QueryValue(q, self)]

Query(q) ==
    /\ Running
    /\ UNCHANGED <<buffer, capacity, offset, used>>
    /\ calls' = Append(calls, Call(q, 0, <<>>, Self, QueryRet(q, Self)))
    /\ UNCHANGED <<timeVars, logVars, ipVars>>

Flush ==
    /\ Running
    /\ LET b == flush(Self)
       IN  /\ buffer' = b.buffer
           /\ capacity' = b.capacity
           /\ offset' = b.offset
           /\ used' = b.used
           /\ calls' = Append(calls, Call("flush", 0, <<>>, Self, NoRet))
    /\ UNCHANGED <<timeVars, logVars, ipVars>>

Probed == Len(calls) < MaxProbedCalls

QueryNext ==
    \/ \E n \in 0..MaxData : Probed /\ Write(n)
    \/ \E count \in Counts : Probed /\ Drop(count)
    \/ Probed /\ Clear
    \/ Probed /\ Flush
    \/ \E q \in Queries : Probed /\ Query(q)

SpecQuery == Init /\ [][QueryNext]_vars

(***************************************************************************)
(* The scenario of the specification: a buffer of capacity 4 and the calls *)
(* write([1,2,3]), write([4,5]), drop(2), drop(1000).  The calls of the    *)
(* scenario are made in every order; the scenario is the run that makes    *)
(* them in this one.                                                       *)
(***************************************************************************)
Scenario ==
    << [op |-> "write", count |-> 0, data |-> <<1, 2, 3>>],
       [op |-> "write", count |-> 0, data |-> <<4, 5>>],
       [op |-> "drop", count |-> 2, data |-> <<>>],
       [op |-> "drop", count |-> 1000, data |-> <<>>] >>

ScenarioInit ==
    /\ LET b == WriteBuffer_new(4)
       IN  /\ buffer = b.buffer
           /\ capacity = b.capacity
           /\ offset = b.offset
           /\ used = b.used
    /\ calls = <<>>
    /\ TimeIdle
    /\ LogIdle
    /\ IpIdle

ScenarioNext ==
    \/ \E i \in {j \in DOMAIN Scenario : Scenario[j].op = "write"} :
          Write(Len(Scenario[i].data))
    \/ \E i \in {j \in DOMAIN Scenario : Scenario[j].op = "drop"} :
          Drop(Scenario[i].count)

SpecScenario == ScenarioInit /\ [][ScenarioNext]_vars

\* the state of a buffer that is not called
BufIdle ==
    /\ LET b == WriteBuffer_new(0)
       IN  /\ buffer = b.buffer
           /\ capacity = b.capacity
           /\ offset = b.offset
           /\ used = b.used
    /\ calls = <<>>

(***************************************************************************)
(* The calls on one Timeout, in a debug or a release build, with a         *)
(* monotonic clock that advances between the calls.                        *)
(***************************************************************************)
Builds == {"debug", "release"}

\* the delays passed to set: none, one millisecond, the largest whose
\* nanoseconds fit the word, the smallest whose do not, the largest word
Delays == {0, 1, MaxSafeDelay, MaxSafeDelay + 1, WordModulus - 1}

\* what the clock reads when the Timeout is made
Clocks == {0, NsPerMs}

\* by how much the clock advances in one step
Ticks == {1, NsPerMs}

TimeoutSelf == [timeout |-> timeout]

TimeRunning == ~tlog.panic /\ tlog.n < MaxTimeSteps

TimeoutInit ==
    /\ timeout = Timeout_new.timeout
    /\ now \in Clocks
    /\ build \in Builds
    /\ tlog = TimeLog0
    /\ BufIdle
    /\ LogIdle
    /\ IpIdle

TimeoutSet(delay_ms) ==
    /\ TimeRunning
    /\ LET r == Timeout_set(TimeoutSelf, delay_ms, now, build)
       IN  /\ timeout' = r.self.timeout
           /\ tlog' = [op |-> "set", prev |-> tlog.op, delay |-> delay_ms,
                       at |-> now, ret |-> TRUE, panic |-> r.panic,
                       armed |-> IF r.panic THEN tlog.armed
                                 ELSE <<now, delay_ms>>,
                       was |-> FALSE, expired |-> FALSE, n |-> tlog.n + 1]
    /\ UNCHANGED <<now, build, bufVars, logVars, ipVars>>

TimeoutClear ==
    /\ TimeRunning
    /\ timeout' = Timeout_clear(TimeoutSelf).timeout
    /\ tlog' = [tlog EXCEPT !.op = "clear", !.prev = tlog.op, !.armed = <<>>,
                            !.was = FALSE, !.expired = FALSE, !.n = @ + 1]
    /\ UNCHANGED <<now, build, bufVars, logVars, ipVars>>

TimeoutCheck ==
    /\ TimeRunning
    /\ LET r == Timeout_check(TimeoutSelf, now)
       IN  tlog' = [tlog EXCEPT !.op = "check", !.prev = tlog.op, !.at = now,
                                !.ret = r, !.was = tlog.expired,
                                !.expired = tlog.expired \/ ~r, !.n = @ + 1]
    /\ UNCHANGED <<timeout, now, build, bufVars, logVars, ipVars>>

Tick(ns) ==
    /\ TimeRunning
    /\ now' = now + ns
    /\ tlog' = [tlog EXCEPT !.op = "tick", !.prev = tlog.op, !.n = @ + 1]
    /\ UNCHANGED <<timeout, build, bufVars, logVars, ipVars>>

TimeoutNext ==
    \/ \E delay_ms \in Delays : TimeoutSet(delay_ms)
    \/ TimeoutClear
    \/ TimeoutCheck
    \/ \E ns \in Ticks : Tick(ns)

SpecTimeout == TimeoutInit /\ [][TimeoutNext]_vars

(***************************************************************************)
(* The calls on one logger, each made as a method of the trait or through  *)
(* the macro of the same name.                                             *)
(***************************************************************************)
Methods == {"debug", "info", "warn", "error"}

Files == {"main.rs", "net.rs"}

Lines == {1, 200}

\* the formats and arguments given to the macros, with the text each reads
Templates ==
    { [fmt |-> <<"msg">>, args |-> <<>>, text |-> <<"msg">>],
      [fmt |-> <<"x=", "{}", "!">>, args |-> <<7>>,
       text |-> <<"x=", "7", "!">>] }

LoggerSelf == [last_severity |-> last_severity]

Logger_method(m, self, file, line, msg) ==
    CASE m = "debug" -> Logger_debug(self, file, line, msg)
      [] m = "info" -> Logger_info(self, file, line, msg)
      [] m = "warn" -> Logger_warn(self, file, line, msg)
      [] m = "error" -> Logger_error(self, file, line, msg)

Logger_macro(m, self, file, line, fmt, args) ==
    CASE m = "debug" -> log_debug(self, file, line, fmt, args)
      [] m = "info" -> log_info(self, file, line, fmt, args)
      [] m = "warn" -> log_warn(self, file, line, fmt, args)
      [] m = "error" -> log_error(self, file, line, fmt, args)

LoggerInit ==
    /\ last_severity = TestLogger_new.last_severity
    /\ seen = <<>>
    /\ lcall = LogCall0
    /\ BufIdle
    /\ TimeIdle
    /\ IpIdle

LogMethod(m, file, line, msg) ==
    /\ lcall.n < MaxLogCalls
    /\ LET r == Logger_method(m, LoggerSelf, file, line, msg)
       IN  /\ last_severity' = r.self.last_severity
           /\ seen' = r.emitted
    /\ lcall' = [method |-> m, via |-> "method", file |-> file, line |-> line,
                 text |-> msg, n |-> lcall.n + 1]
    /\ UNCHANGED <<bufVars, timeVars, ipVars>>

LogMacro(m, file, line, t) ==
    /\ lcall.n < MaxLogCalls
    /\ LET r == Logger_macro(m, LoggerSelf, file, line, t.fmt, t.args)
       IN  /\ last_severity' = r.self.last_severity
           /\ seen' = r.emitted
    /\ lcall' = [method |-> m, via |-> "macro", file |-> file, line |-> line,
                 text |-> t.text, n |-> lcall.n + 1]
    /\ UNCHANGED <<bufVars, timeVars, ipVars>>

LoggerNext ==
    \/ \E m \in Methods, file \in Files, line \in Lines, t \in Templates :
          LogMethod(m, file, line, t.text)
    \/ \E m \in Methods, file \in Files, line \in Lines, t \in Templates :
          LogMacro(m, file, line, t)

SpecLogger == LoggerInit /\ [][LoggerNext]_vars

(***************************************************************************)
(* bytes() and version() of one address, called on the Ipv4Addr or the     *)
(* Ipv6Addr itself or on the IpAddr that wraps it.                         *)
(***************************************************************************)
OctetValues == {0, 1, 255}

SegmentValues == {4660, 65281}

Addrs ==
    {V4(o) : o \in [1..4 -> OctetValues]}
        \cup {V6(g) : g \in [1..8 -> SegmentValues]}

IpInit ==
    /\ ip_addr \in Addrs
    /\ ip_res = IpRes0
    /\ BufIdle
    /\ TimeIdle
    /\ LogIdle

IpBytes(via) ==
    /\ ip_res' = [op |-> "bytes", via |-> via, version |-> 0,
                  bytes |-> IF via = "IpAddr" THEN IpAddr_bytes(ip_addr)
                            ELSE IF ip_addr.v = "V4"
                                 THEN Ipv4Addr_bytes(ip_addr)
                                 ELSE Ipv6Addr_bytes(ip_addr)]
    /\ UNCHANGED <<ip_addr, bufVars, timeVars, logVars>>

IpVersion(via) ==
    /\ ip_res' = [op |-> "version", via |-> via, bytes |-> <<>>,
                  version |-> IF via = "IpAddr" THEN IpAddr_version(ip_addr)
                              ELSE IF ip_addr.v = "V4"
                                   THEN Ipv4Addr_version(ip_addr)
                                   ELSE Ipv6Addr_version(ip_addr)]
    /\ UNCHANGED <<ip_addr, bufVars, timeVars, logVars>>

IpNext ==
    \/ \E via \in {"IpAddr", "variant"} : IpBytes(via)
    \/ \E via \in {"IpAddr", "variant"} : IpVersion(via)

SpecIp == IpInit /\ [][IpNext]_vars

(***************************************************************************)
(* What the log says about the calls made so far.                          *)
(***************************************************************************)
Last == calls[Len(calls)]

\* the call before the last
Prev == calls[Len(calls) - 1]

\* the last call made is a call of op (every call is the last one in the
\* state it leads to, with the buffer before it in pre and the buffer
\* after it in the state variables)
LastIs(op) == IF calls = <<>> THEN FALSE ELSE Last.op = op

\* the last call made had a call of op before it
PrevIs(op) == IF Len(calls) < 2 THEN FALSE ELSE Prev.op = op

\* the buffer after call i
Post(i) == IF i < Len(calls) THEN calls[i + 1].pre ELSE Self

\* the sum of the elements of a sequence of numbers
RECURSIVE Sum(_)
Sum(s) == IF s = <<>> THEN 0 ELSE s[1] + Sum(Tail(s))

CallsOf(op) == {i \in 1..Len(calls) : calls[i].op = op}

\* the sum of the lengths of all slices passed to write
SumWritten ==
    Sum([i \in 1..Len(calls) |->
            IF calls[i].op = "write" THEN Len(calls[i].data) ELSE 0])

\* the sum of the counts passed to drop
SumCounts ==
    Sum([i \in 1..Len(calls) |->
            IF calls[i].op = "drop" THEN calls[i].count ELSE 0])

\* the sum, over the drop calls, of the count clamped to what was buffered
SumClamped ==
    Sum([i \in 1..Len(calls) |->
            IF calls[i].op = "drop"
            THEN Min(calls[i].count, buffered(calls[i].pre)) ELSE 0])

\* the bytes that were buffered when clear was called, summed
SumCleared ==
    Sum([i \in 1..Len(calls) |->
            IF calls[i].op = "clear" THEN buffered(calls[i].pre) ELSE 0])

OnlyWrites == \A i \in 1..Len(calls) : calls[i].op = "write"

\* the last k elements of s
Suffix(s, k) == SubSeq(s, Len(s) - k + 1, Len(s))

(***************************************************************************)
(* C1: after any sequence of write calls on a new buffer (any capacity,    *)
(* 0 included, any slice lengths, growth or not), as_bytes() is exactly    *)
(* the concatenation of the written slices in call order.                  *)
(***************************************************************************)
C1_AppendsConcatenate ==
    OnlyWrites => /\ as_bytes_ok(Self)
                  /\ as_bytes(Self) = Appended(calls)

\* three non-empty writes on a buffer of capacity 0, the storage growing
\* more than once
C1_Witness ==
    /\ OnlyWrites
    /\ capacity = 0
    /\ Len(calls) >= 3
    /\ \A i \in 1..Len(calls) : Len(calls[i].data) > 0
    /\ Cardinality({i \in 1..Len(calls) : calls[i].ret.grew}) >= 2
    /\ Len(as_bytes(Self)) >= 4

(***************************************************************************)
(* C2: drop(n) followed by write(d): as_bytes() is the part of the window  *)
(* before the drop that the drop left, in order, followed by d; and in     *)
(* every state the window is the last buffered() bytes ever written, so    *)
(* no byte removed by a drop or clear comes back (every written byte       *)
(* carries its own position), whether the write grows, shifts, both or     *)
(* neither.                                                                *)
(***************************************************************************)
C2_DropThenWrite ==
    /\ as_bytes_ok(Self)
    /\ buffered(Self) <= Len(Appended(calls))
    /\ as_bytes(Self) = Suffix(Appended(calls), buffered(Self))
    /\ (LastIs("write") /\ PrevIs("drop"))
         => LET d == Prev
                w == as_bytes(d.pre)
            IN  as_bytes(Self) = Suffix(w, Len(w) - Min(d.count, Len(w))) \o Last.data

\* a drop of part of the window, then a write that both grows and shifts
C2_Witness ==
    /\ LastIs("write")
    /\ PrevIs("drop")
    /\ Last.ret.grew
    /\ Last.ret.shifted
    /\ Len(Last.data) > 0
    /\ Prev.count > 0
    /\ Prev.count < buffered(Prev.pre)

(***************************************************************************)
(* C3 as stated: buffered() is the sum of the written lengths minus the    *)
(* sum of the counts passed to drop, that difference clamped at 0, minus   *)
(* the bytes dropped by clear.                                             *)
(***************************************************************************)
C3_Original ==
    buffered(Self) = Max(0, SumWritten - SumCounts) - SumCleared

(***************************************************************************)
(* C3 amended: the clamp is per drop call.  buffered() is the sum of the   *)
(* written lengths, minus for every drop call min(count, buffered() at     *)
(* that call), minus the bytes dropped by clear.                           *)
(***************************************************************************)
C3_BufferedIsBalance ==
    buffered(Self) = SumWritten - SumClamped - SumCleared

\* a clear of a non-empty buffer, a drop of more than is buffered, and a
\* write after them
C3_Witness ==
    /\ \E i \in CallsOf("clear") : buffered(calls[i].pre) > 0
    /\ \E i \in CallsOf("drop") : calls[i].count > buffered(calls[i].pre)
    /\ LastIs("write")
    /\ buffered(Self) > 0

(***************************************************************************)
(* C4: write(data) succeeds in every reachable state for a slice of any    *)
(* length: no panic, Ok(data.len()) and buffered() grows by data.len().    *)
(***************************************************************************)
C4_WriteAlwaysSucceeds ==
    LastIs("write") =>
        /\ Last.ret.ok
        /\ Last.ret.n = Len(Last.data)
        /\ buffered(Self) = buffered(Last.pre) + Len(Last.data)

\* a write of more than the capacity into a buffer that is already full
C4_Witness ==
    /\ LastIs("write")
    /\ is_full(Last.pre)
    /\ Last.pre.capacity > 0
    /\ Len(Last.data) > Last.pre.capacity
    /\ Last.ret.grew
    /\ Last.ret.n = Len(Last.data)

(***************************************************************************)
(* C5: 0 <= offset, 0 <= used and offset + used <= buffer.len() in every   *)
(* reachable state.                                                        *)
(***************************************************************************)
C5_WindowInsideStorage ==
    /\ offset \in Nat
    /\ used \in Nat
    /\ offset + used <= Len(buffer)

\* the window ends at the end of the storage after a drop and a write
C5_Witness ==
    /\ offset > 0
    /\ used > 0
    /\ offset + used = Len(buffer)
    /\ CallsOf("drop") # {}
    /\ LastIs("write")

(***************************************************************************)
(* C6: drop(count) advances offset by min(count, used) and lowers used by  *)
(* the same; with count > used it leaves buffered() = 0 and is_empty(),    *)
(* and drop(0) changes nothing.                                            *)
(***************************************************************************)
C6_DropClamps ==
    LastIs("drop") =>
        LET k == Min(Last.count, Last.pre.used)
        IN  /\ offset = Last.pre.offset + k
            /\ used = Last.pre.used - k
            /\ buffer = Last.pre.buffer
            /\ capacity = Last.pre.capacity
            /\ Last.count > Last.pre.used => buffered(Self) = 0 /\ is_empty(Self)
            /\ Last.count = 0 => Self = Last.pre

\* drop(1000) on a buffer holding 3 bytes
C6_Witness ==
    /\ LastIs("drop")
    /\ Last.count = HugeCount
    /\ buffered(Last.pre) = 3
    /\ buffered(Self) = 0
    /\ is_empty(Self)

(***************************************************************************)
(* C7: is_full() iff buffered() >= capacity; available() is 0 exactly when *)
(* is_full(), and capacity - buffered() > 0 otherwise.                     *)
(***************************************************************************)
C7_FullAndAvailable ==
    /\ is_full(Self) <=> buffered(Self) >= capacity
    /\ available(Self) = 0 <=> is_full(Self)
    /\ ~is_full(Self) => /\ available(Self) = capacity - buffered(Self)
                         /\ available(Self) > 0

\* a write has pushed buffered() above a capacity that is not 0
C7_Witness ==
    /\ LastIs("write")
    /\ ~is_full(Last.pre)
    /\ capacity > 0
    /\ buffered(Self) > capacity
    /\ is_full(Self)
    /\ available(Self) = 0

(***************************************************************************)
(* C8 as stated: when every write stays within the allocated capacity      *)
(* (buffered() + data.len() <= buffer.len() at the time of the write), no  *)
(* write shifts the window or resets offset.                               *)
(***************************************************************************)
C8_Original ==
    (\A i \in CallsOf("write") :
        buffered(calls[i].pre) + Len(calls[i].data) <= Len(calls[i].pre.buffer))
    => \A i \in CallsOf("write") :
          /\ ~calls[i].ret.shifted
          /\ Post(i).offset = calls[i].pre.offset

(***************************************************************************)
(* C8 amended: a write for which offset + buffered() + data.len() <=       *)
(* buffer.len() at the time of the write neither grows the storage nor     *)
(* shifts the window: offset and every byte of the window stay in place.   *)
(***************************************************************************)
C8_NoShiftWhenTailFits ==
    (/\ LastIs("write")
     /\ Last.pre.offset + buffered(Last.pre) + Len(Last.data) <= Len(Last.pre.buffer))
    => /\ ~Last.ret.shifted
       /\ ~Last.ret.grew
       /\ offset = Last.pre.offset
       /\ Len(buffer) = Len(Last.pre.buffer)
       /\ \A j \in 1..(Last.pre.offset + Last.pre.used) :
              buffer[j] = Last.pre.buffer[j]

\* after a drop, a write that fits behind the window of a buffer whose
\* offset is not 0
C8_Witness ==
    /\ LastIs("write")
    /\ PrevIs("drop")
    /\ Last.pre.offset > 0
    /\ Last.pre.used > 0
    /\ Len(Last.data) > 0
    /\ Last.pre.offset + Last.pre.used + Len(Last.data) <= Len(Last.pre.buffer)
    /\ offset = Last.pre.offset

(***************************************************************************)
(* C9: clear() does what drop(used) does: buffered() = 0, offset advanced  *)
(* by the old used, storage and capacity unchanged.                        *)
(***************************************************************************)
C9_ClearIsDropUsed ==
    LastIs("clear") =>
        LET pre == Last.pre
        IN  /\ Self = drop(pre, pre.used)
            /\ buffered(Self) = 0
            /\ offset = pre.offset + pre.used
            /\ Len(buffer) = Len(pre.buffer)
            /\ buffer = pre.buffer
            /\ capacity = pre.capacity

\* clear of a buffer that holds bytes behind an offset that is not 0
C9_Witness ==
    /\ LastIs("clear")
    /\ Last.pre.used > 0
    /\ Last.pre.offset > 0
    /\ offset = Last.pre.offset + Last.pre.used

(***************************************************************************)
(* C10: clear() is idempotent: the buffer after clear(); clear() is the    *)
(* buffer after the first clear().                                         *)
(***************************************************************************)
C10_ClearIdempotent ==
    (LastIs("clear") /\ PrevIs("clear")) => Self = Last.pre

\* two clears in a row, the first of a buffer that holds bytes
C10_Witness ==
    /\ LastIs("clear")
    /\ PrevIs("clear")
    /\ buffered(Prev.pre) > 0
    /\ Self = Last.pre

(***************************************************************************)
(* C11: capacity is fixed at construction; buffer.len() >= capacity in     *)
(* every reachable state; buffer.len() never decreases: write may only     *)
(* raise it, drop and clear leave it unchanged.                            *)
(***************************************************************************)
C11_StorageNeverShrinks ==
    /\ Len(buffer) >= capacity
    /\ calls # <<>> =>
          /\ capacity = calls[1].pre.capacity
          /\ capacity = Last.pre.capacity
          /\ Len(buffer) >= Len(Last.pre.buffer)
    /\ (LastIs("drop") \/ LastIs("clear")) => Len(buffer) = Len(Last.pre.buffer)

\* a write has raised buffer.len() above a capacity that is not 0, and a
\* drop was made after it
C11_Witness ==
    /\ LastIs("drop")
    /\ PrevIs("write")
    /\ Prev.ret.grew
    /\ capacity > 0
    /\ Len(buffer) > capacity
    /\ Len(buffer) > Len(calls[1].pre.buffer)

(***************************************************************************)
(* C17: a write for which offset + used + data.len() exceeds buffer.len()  *)
(* (as it is after the grow step) leaves offset = 0 and as_bytes() = the   *)
(* previous window followed by data; a write for which it fits leaves      *)
(* offset unchanged, moves no byte and puts data right behind the window.  *)
(***************************************************************************)
C17_ShiftOrAppendInPlace ==
    LastIs("write") =>
        LET pre == Last.pre
            data == Last.data
            end == pre.offset + pre.used
        IN  /\ as_bytes_ok(Self)
            /\ as_bytes(Self) = as_bytes(pre) \o data
            /\ IF end + Len(data) > Len(buffer)
               THEN /\ offset = 0
                    /\ Last.ret.shifted
               ELSE /\ offset = pre.offset
                    /\ ~Last.ret.shifted
                    /\ \A j \in 1..Len(pre.buffer) :
                          (j <= end \/ j > end + Len(data)) => buffer[j] = pre.buffer[j]
                    /\ \A j \in 1..Len(data) : buffer[end + j] = data[j]

\* a write that shifts a window of more than one byte that does not start
\* at 0
C17_Witness ==
    /\ LastIs("write")
    /\ Last.ret.shifted
    /\ Last.pre.offset > 0
    /\ Last.pre.used > 1
    /\ Len(Last.data) > 0
    /\ offset = 0

(***************************************************************************)
(* C18: write changes buffer.len() only when used + data.len() exceeds     *)
(* it, and then to at least used + data.len(); so while used + data.len()  *)
(* <= buffer.len() holds at every write, buffer.len() stays what it was    *)
(* at construction.                                                        *)
(***************************************************************************)
C18_GrowsOnlyWhenNeeded ==
    /\ LastIs("write") =>
          /\ Last.ret.grew <=> Len(buffer) # Len(Last.pre.buffer)
          /\ Len(buffer) # Len(Last.pre.buffer) =>
                /\ Last.pre.used + Len(Last.data) > Len(Last.pre.buffer)
                /\ Len(buffer) >= Last.pre.used + Len(Last.data)
    /\ (calls # <<>> /\ \A i \in CallsOf("write") :
            calls[i].pre.used + Len(calls[i].data) <= Len(calls[i].pre.buffer))
         => Len(buffer) = Len(calls[1].pre.buffer)

\* more bytes than the storage holds have passed through a buffer that
\* never grew
C18_Witness ==
    /\ LastIs("write")
    /\ \A i \in CallsOf("write") : ~calls[i].ret.grew
    /\ Len(buffer) = Len(calls[1].pre.buffer)
    /\ SumWritten > Len(buffer)

(***************************************************************************)
(* C20: write of an empty slice returns 0 and changes nothing: no growth,  *)
(* no shift, also when offset + used = buffer.len().                       *)
(***************************************************************************)
C20_EmptyWriteIsNoOp ==
    (LastIs("write") /\ Last.data = <<>>) =>
        /\ Last.ret.ok
        /\ Last.ret.n = 0
        /\ ~Last.ret.grew
        /\ ~Last.ret.shifted
        /\ Self = Last.pre

\* an empty write into a buffer whose window ends at the end of the storage
C20_Witness ==
    /\ LastIs("write")
    /\ Last.data = <<>>
    /\ Last.pre.offset > 0
    /\ Last.pre.used > 0
    /\ Last.pre.offset + Last.pre.used = Len(Last.pre.buffer)
    /\ Self = Last.pre

(***************************************************************************)
(* C12: write never lowers used, drop and clear never raise it, and the    *)
(* queries is_full, is_empty, available, buffered, as_bytes and flush      *)
(* leave offset, used, buffer and capacity unchanged.                      *)
(***************************************************************************)
C12_UsedDirectionAndFrame ==
    calls # <<>> =>
        /\ LastIs("write") => used >= Last.pre.used
        /\ (LastIs("drop") \/ LastIs("clear")) => used <= Last.pre.used
        /\ (Last.op \in Queries \/ LastIs("flush")) => Self = Last.pre
        /\ used # Last.pre.used => Last.op \in {"write", "drop", "clear"}

\* flush after as_bytes on a buffer that holds bytes
C12_Witness ==
    /\ LastIs("flush")
    /\ PrevIs("as_bytes")
    /\ Prev.ret.val # <<>>
    /\ used > 0
    /\ Self = Last.pre

(***************************************************************************)
(* C13: the scenario as one trace.  On a buffer of capacity 4,             *)
(* write([1,2,3]) gives buffered() = 3, is_full() false, available() = 1;  *)
(* write([4,5]) gives buffered() = 5, is_full(), available() = 0 and       *)
(* as_bytes() = [1,2,3,4,5]; drop(2) gives buffered() = 3 and as_bytes()   *)
(* = [3,4,5]; drop(1000) gives buffered() = 0 and is_empty().              *)
(***************************************************************************)
C13_Scenario ==
    LET Followed(k) ==
            /\ Len(calls) >= k
            /\ calls[1].pre.capacity = 4
            /\ \A i \in 1..k : /\ calls[i].op = Scenario[i].op
                               /\ calls[i].count = Scenario[i].count
                               /\ calls[i].data = Scenario[i].data
    IN  /\ Followed(1) => /\ buffered(Post(1)) = 3
                          /\ ~is_full(Post(1))
                          /\ available(Post(1)) = 1
        /\ Followed(2) => /\ buffered(Post(2)) = 5
                          /\ is_full(Post(2))
                          /\ available(Post(2)) = 0
                          /\ as_bytes_ok(Post(2))
                          /\ as_bytes(Post(2)) = <<1, 2, 3, 4, 5>>
        /\ Followed(3) => /\ buffered(Post(3)) = 3
                          /\ as_bytes_ok(Post(3))
                          /\ as_bytes(Post(3)) = <<3, 4, 5>>
        /\ Followed(4) => /\ buffered(Post(4)) = 0
                          /\ is_empty(Post(4))

\* the four calls of the scenario have been made in its order
C13_Witness ==
    /\ Len(calls) = 4
    /\ capacity = 4
    /\ \A i \in 1..4 : /\ calls[i].op = Scenario[i].op
                       /\ calls[i].count = Scenario[i].count
                       /\ calls[i].data = Scenario[i].data
    /\ is_empty(Self)

(***************************************************************************)
(* C19: for every delay_ms and every clock reading T, set(delay_ms) stores *)
(* the expiry T + delay_ms * 1000000 without overflow or wrap-around (it   *)
(* does not panic and the stored word is the true sum), so a larger delay  *)
(* never yields an earlier expiry, and check() right after set(), the      *)
(* clock not advanced, returns true.                                       *)
(***************************************************************************)
C19_SetNeverOverflows ==
    /\ tlog.op = "set" =>
          /\ ~tlog.panic
          /\ tlog.delay <= MaxSafeDelay
          /\ tlog.at + tlog.delay * NsPerMs < WordModulus
          /\ timeout = Some(tlog.at + tlog.delay * NsPerMs)
          /\ \A d \in Delays :
                d <= tlog.delay =>
                   LET r == Timeout_set(Timeout_new, d, tlog.at, build)
                   IN  ~r.panic => r.self.timeout[1] <= timeout[1]
    /\ (tlog.op = "check" /\ tlog.prev = "set") => tlog.ret

\* a release build has wrapped the expiry, and the check right after the
\* set says the timeout has expired
C19_Witness ==
    /\ build = "release"
    /\ tlog.op = "check"
    /\ tlog.prev = "set"
    /\ tlog.delay > MaxSafeDelay
    /\ now = tlog.at
    /\ ~tlog.ret

\* the clock reading t is within the delay the Timeout was armed with; a
\* delay above MaxSafeDelay is more nanoseconds than any clock reading here
WithinDelay(armed, t) ==
    IF armed[2] > MaxSafeDelay THEN TRUE
    ELSE t <= armed[1] + armed[2] * NsPerMs

(***************************************************************************)
(* C14: check() returns true whenever the timeout is unarmed (after new()  *)
(* or clear()); armed by set(delay_ms) at clock time T, it returns true    *)
(* exactly while the clock is <= T + delay_ms milliseconds; and once it    *)
(* has returned false it keeps returning false until the next set() or     *)
(* clear().                                                                *)
(***************************************************************************)
C14_CheckFollowsDelay ==
    tlog.op = "check" =>
       /\ tlog.armed = <<>> => tlog.ret
       /\ tlog.armed # <<>> => (tlog.ret <=> WithinDelay(tlog.armed, tlog.at))
       /\ tlog.was => ~tlog.ret

\* a check of an armed timeout that had already expired says so again
C14_Witness ==
    /\ tlog.op = "check"
    /\ tlog.armed # <<>>
    /\ tlog.was
    /\ ~tlog.ret

\* the nanoseconds of the delay and their sum with the clock fit the word
NoOverflow(armed) ==
    /\ armed[2] <= MaxSafeDelay
    /\ armed[1] + armed[2] * NsPerMs < WordModulus

\* what check() does when set() did not overflow: C14 for those calls
CheckFollowsDelayWithoutOverflow ==
    (tlog.op = "check" /\ (tlog.armed # <<>> => NoOverflow(tlog.armed))) =>
       /\ tlog.armed = <<>> => tlog.ret
       /\ tlog.armed # <<>> => (tlog.ret <=> WithinDelay(tlog.armed, tlog.at))
       /\ tlog.was => ~tlog.ret

\* the severity each convenience method is to log with
SeverityOf(m) ==
    CASE m = "debug" -> DEBUG
      [] m = "info" -> INFO
      [] m = "warn" -> WARN
      [] m = "error" -> ERROR

(***************************************************************************)
(* C15: each of debug, info, warn and error, and each of the macros        *)
(* log_debug!, log_info!, log_warn! and log_error!, emits exactly one      *)
(* message through log(), with its own severity and the unchanged file,    *)
(* line and text, so the last severity seen by log() is that of the last   *)
(* call.                                                                   *)
(***************************************************************************)
C15_OneMessageOwnSeverity ==
    lcall.n > 0 =>
       /\ seen = <<[file |-> lcall.file, line |-> lcall.line,
                    s |-> SeverityOf(lcall.method), msg |-> lcall.text]>>
       /\ last_severity = SeverityOf(lcall.method)
       /\ Cardinality({DEBUG, INFO, WARN, ERROR}) = 4

\* log_warn! with an argument to format, after another call
C15_Witness ==
    /\ lcall.n > 1
    /\ lcall.via = "macro"
    /\ lcall.method = "warn"
    /\ lcall.text = <<"x=", "7", "!">>
    /\ Len(seen) = 1
    /\ last_severity = WARN

(***************************************************************************)
(* C16: bytes() returns 16 bytes: for an IPv4 address its 4 octets in      *)
(* bytes 0..3 and zero in bytes 4..15, for an IPv6 address the high byte   *)
(* of segment i at index 2i and its low byte at index 2i+1; version()      *)
(* returns 4 for IPv4 and 6 for IPv6; and the IpAddr returns what the      *)
(* variant it wraps returns.                                               *)
(***************************************************************************)
C16_BytesAndVersion ==
    /\ ip_res.op = "bytes" =>
          /\ DOMAIN ip_res.bytes = 0..15
          /\ \A j \in 0..15 : ip_res.bytes[j] \in 0..255
          /\ IF ip_addr.v = "V4"
             THEN /\ \A i \in 0..3 : ip_res.bytes[i] = ip_addr.octets[i + 1]
                  /\ \A i \in 4..15 : ip_res.bytes[i] = 0
             ELSE \A i \in 0..7 :
                     /\ ip_res.bytes[2 * i] * 256 + ip_res.bytes[2 * i + 1]
                           = ip_addr.segments[i + 1]
    /\ ip_res.op = "version" =>
          ip_res.version = (IF ip_addr.v = "V4" THEN 4 ELSE 6)

\* the bytes of an IPv6 address asked of the IpAddr that wraps it
C16_Witness ==
    /\ ip_res.op = "bytes"
    /\ ip_res.via = "IpAddr"
    /\ ip_addr.v = "V6"
    /\ ip_addr.segments[1] = 4660
    /\ ip_res.bytes[0] = 18
    /\ ip_res.bytes[1] = 52

====
